---- MODULE Spec2Model ----
(***************************************************************************)
(* A model of igdump.py: one run of main().  The main thread creates the   *)
(* table, looks up the subject's profile, fans the page requests out over  *)
(* a thread pool, reads the pages, fans the profile lookups out over a     *)
(* second pool, reads the profiles, inserts and commits.  The pool's       *)
(* worker threads run concurrently with the main thread while it is inside *)
(* a `with ThreadPoolExecutor(...)` block.                                 *)
(***************************************************************************)
EXTENDS Integers, Sequences, FiniteSets

VARIABLES
    pc,             \* position of the main thread
    err,            \* exception that ended the run ("" while none)
    table,          \* "absent" | "pre" (exists before the run) | "created"
    rows,           \* rows inserted by this run, in order
    committed,      \* con.commit() has run
    threads,        \* InstagramClient.threads (0 models None)
    argsThreads,    \* args.threads
    declared_total, \* user_profile["edge_follow"]["count"] (-1: not read yet)
    slices,         \* the max_id offsets of get_following_all
    pworkers,       \* max_workers of the paging pool (0: no pool yet)
    pfut,           \* futures of the page requests, in submission order
    ri,             \* number of page futures whose result has been read
    acc,            \* the pages summed so far inside get_following_all
    following_all,  \* the list get_following_all returned to main()
    eworkers,       \* max_workers of the enrichment pool (0: no pool yet)
    efut,           \* futures of the profile lookups, in submission order
    ei,             \* number of enrichment futures whose result has been read
    accounts,       \* the list [f.result() for f in futures] as built so far
    idx,            \* number of accounts handed to executemany
    startReqs,      \* HTTP requests sent for the subject's profile
    pageReqs,       \* HTTP requests sent for pages
    subject_id,     \* int(user_profile["id"]) (0: not read yet)
    session_id,     \* InstagramClient.session_id ("None" models None)
    user_id,        \* InstagramClient.user_id (0 models None)
    firstFailed,    \* the lookup that failed first in time (0: none has); kept
                    \* for the properties, the program does not read it
    last            \* the make_request call that returned in the last step

vars == <<pc, err, table, rows, committed, threads, argsThreads, declared_total,
          slices, pworkers, pfut, ri, acc, following_all, eworkers, efut, ei,
          accounts, idx, startReqs, pageReqs, session_id, user_id, subject_id,
          firstFailed, last>>

----------------------------------------------------------------------------
\* Bounds of the model.
MaxPages == 2       \* declared totals range over 0 .. MaxPages * PageSize

\* Program constants.
PageSize == 200     \* Instagram.following_page_max
BAD_REQUEST == 400  \* HTTPStatus.BAD_REQUEST

Usernames == {"a", "b"}

\* Thread counts: a pool of one worker, and one as large as the most tasks.
ThreadCounts == {1, MaxPages}

\* Declared totals: each multiple of the page size and its successor.
Totals == {t \in 0..(MaxPages * PageSize) : t % PageSize \in {0, 1}}

\* parse_args: --session-id and --user-id default to the environment's
\* IG_SESSION_ID and IG_USER_ID, and to None where that is not set either;
\* neither flag is required.  Both credentials given, and each one missing.
Credentials == {<<"sid", 3>>, <<"None", 3>>, <<"sid", 0>>}

\* Statuses of the responses of the remote.
Statuses == {200, 302, 400, 503}

----------------------------------------------------------------------------
\* Payloads of the remote.

\* A page of the following listing: a decodable body with a "users" array of
\* summaries (a summary is its username), or a body json.load or ["users"]
\* fails on.
PageBodies ==
    {[ok |-> FALSE, users |-> <<>>]}
    \cup {[ok |-> TRUE, users |-> <<>>]}
    \cup {[ok |-> TRUE, users |-> <<u>>] : u \in Usernames}

\* The six values main() reads from a profile are kept by what sqlite3 sees of
\* each when it is used as a row of parameters: its number of items when it is
\* a sequence (a string of n characters has n), -1 when it is not one (an
\* integer, None).
Shapes == {<<4, 1, 9, -1, -1, -1>>,     \* strings and integer counts
           <<6, 6, 6, 6, 6, 6>>}        \* six strings of six characters

\* The numeric ids of the accounts (the "id" of a profile), none of them the
\* id of the credential's own account.
Ids == [gkze |-> 7, a |-> 8, b |-> 9]

NoProfile == [username |-> "", id |-> 0, count |-> 0, shape |-> <<>>]

\* A profile payload: data.user of a decodable body, or a body json.load or
\* ["data"]["user"] fails on.
ProfileBodies(u, counts) ==
    {[ok |-> FALSE, user |-> NoProfile]}
    \cup {[ok |-> TRUE, user |-> [username |-> u, id |-> Ids[u], count |-> c, shape |-> s]] :
            c \in counts, s \in Shapes}

\* What urlopen does with one request: it returns a response, or raises
\* HTTPError for an error status, or raises URLError (no response at all).
\* make_request tests the status of a returned response against 400 itself,
\* so a returned response may carry any status here; an opener that raises
\* HTTPError for every 4xx/5xx takes the second form only.
UrlopenOutcomes ==
    {[via |-> "return", status |-> s] : s \in Statuses}
    \cup {[via |-> "HTTPError", status |-> s] : s \in {t \in Statuses : t >= BAD_REQUEST}}
    \cup {[via |-> "URLError", status |-> 0]}

----------------------------------------------------------------------------
\* Results of calls: a value, or an exception.
Resp == [kind |-> "resp", exc |-> ""]
None == [kind |-> "none", exc |-> ""]
Raise(e) == [kind |-> "exc", exc |-> e]

\* InstagramClient.make_request on urlopen's outcome o.
make_request(o) ==
    IF o.via # "return" THEN Raise(o.via)       \* logged and raised again
    ELSE IF o.status >= BAD_REQUEST THEN None   \* logged, bare return
    ELSE Resp

\* Cookie(self.session_id, self.user_id), the Cookie header of every request.
Cookie == [sessionid |-> session_id, ds_user_id |-> user_id]
NoCookie == [sessionid |-> "", ds_user_id |-> 0]

NoCall == [called |-> FALSE, via |-> "", status |-> 0, out |-> None, cookie |-> NoCookie]
Call(o) == [called |-> TRUE, via |-> o.via, status |-> o.status,
            out |-> make_request(o), cookie |-> Cookie]

\* InstagramClient.get_profile: json.load(make_request(...))["data"]["user"].
NoValue == [kind |-> "nil", exc |-> "", profile |-> NoProfile]
get_profile(o, body) ==
    LET r == make_request(o) IN
    IF r.kind = "exc" THEN [kind |-> "exc", exc |-> r.exc, profile |-> NoProfile]
    ELSE IF r.kind = "none"
        THEN [kind |-> "exc", exc |-> "AttributeError", profile |-> NoProfile]
    ELSE IF ~body.ok
        THEN [kind |-> "exc", exc |-> "DecodeError", profile |-> NoProfile]
    ELSE [kind |-> "value", exc |-> "", profile |-> body.user]

\* InstagramClient.get_following_slice: make_request's result, cast unchanged.
NoBody == [ok |-> FALSE, users |-> <<>>]
get_following_slice(o, body) ==
    LET r == make_request(o) IN
    [kind |-> r.kind, exc |-> r.exc, body |-> IF r.kind = "resp" THEN body ELSE NoBody]

\* The request of get_following_slice(user_id, max_id): the account in the
\* path is user_id or self.user_id, the query is count (left at its default,
\* following_page_max) and max_id.
NoRequest == [user_id |-> 0, count |-> 0, max_id |-> 0]

\* Mutant: the listing of the credential's own account is asked for.
FollowingRequestOwnAccount(uid, max_id) ==
    [user_id |-> user_id, count |-> PageSize, max_id |-> max_id]

FollowingRequest(uid, max_id) ==
    [user_id |-> IF uid # 0 THEN uid ELSE user_id, count |-> PageSize, max_id |-> max_id]

\* range(page, count + page, page): the end is exclusive.
RECURSIVE Range(_, _, _)
Range(start, stop, step) ==
    IF start >= stop THEN <<>> ELSE <<start>> \o Range(start + step, stop, step)

\* Mutant: the end of the range taken as inclusive.
SlicesInclusiveEnd(count) == Range(PageSize, count + PageSize + 1, PageSize)

Slices(count) == Range(PageSize, count + PageSize, PageSize)

\* self.threads or len(slices)
PagePoolSize == IF threads # 0 THEN threads ELSE Len(slices)

----------------------------------------------------------------------------
Init ==
    /\ pc = "create_table"
    /\ err = ""
    /\ table \in {"absent", "pre"}
    /\ rows = <<>>
    /\ committed = FALSE
    /\ threads \in {0, 1}       \* none set, as main() builds the client, or one
    /\ argsThreads \in ThreadCounts
    /\ declared_total = -1
    /\ slices = <<>>
    /\ pworkers = 0
    /\ pfut = <<>>
    /\ ri = 0
    /\ acc = <<>>
    /\ following_all = <<>>
    /\ eworkers = 0
    /\ efut = <<>>
    /\ ei = 0
    /\ accounts = <<>>
    /\ idx = 0
    /\ startReqs = 0
    /\ pageReqs = 0
    /\ \E c \in Credentials : session_id = c[1] /\ user_id = c[2]
    /\ subject_id = 0
    /\ firstFailed = 0
    /\ last = NoCall

Fail(e) == pc' = "failed" /\ err' = e

\* Mutant: CREATE TABLE IF NOT EXISTS, which goes on with the table found.
CreateTableIfNotExists ==
    /\ pc = "create_table"
    /\ pc' = "get_profile"
    /\ table' = (IF table = "pre" THEN "pre" ELSE "created")
    /\ last' = NoCall
    /\ UNCHANGED <<err, rows, committed, threads, argsThreads, declared_total,
                   slices, pworkers, pfut, ri, acc, following_all, eworkers,
                   efut, ei, accounts, idx, startReqs, pageReqs,
                   session_id, user_id, subject_id, firstFailed>>

\* Mutant: the table is left to be created later, the requests come first.
CreateTableDeferred ==
    /\ pc = "create_table"
    /\ pc' = "get_profile"
    /\ last' = NoCall
    /\ UNCHANGED <<err, table, rows, committed, threads, argsThreads,
                   declared_total, slices, pworkers, pfut, ri, acc, following_all,
                   eworkers, efut, ei, accounts, idx, startReqs, pageReqs,
                   session_id, user_id, subject_id, firstFailed>>

\* main(): CREATE TABLE following (...).  The statement fails when the table
\* exists; as DDL it is not part of a transaction.
CreateTable ==
    /\ pc = "create_table"
    /\ IF table = "pre"
          THEN Fail("OperationalError") /\ UNCHANGED table
          ELSE table' = "created" /\ pc' = "get_profile" /\ UNCHANGED err
    /\ last' = NoCall
    /\ UNCHANGED <<rows, committed, threads, argsThreads, declared_total, slices,
                   pworkers, pfut, ri, acc, following_all, eworkers, efut, ei,
                   accounts, idx, startReqs, pageReqs,
                   session_id, user_id, subject_id, firstFailed>>

\* get_following_all: user_profile = self.get_profile(user_name); slices = range(...)
GetUserProfile ==
    /\ pc = "get_profile"
    /\ \E o \in UrlopenOutcomes, body \in ProfileBodies("gkze", Totals) :
        LET r == get_profile(o, body) IN
        /\ last' = Call(o)
        /\ startReqs' = startReqs + 1
        /\ IF r.kind = "value"
              THEN /\ declared_total' = r.profile.count
                   /\ subject_id' = r.profile.id
                   /\ slices' = Slices(r.profile.count)
                   /\ pc' = "pool_pages"
                   /\ UNCHANGED err
              ELSE /\ Fail(r.exc)
                   /\ UNCHANGED <<declared_total, subject_id, slices>>
    /\ UNCHANGED <<table, rows, committed, threads, argsThreads, pworkers, pfut,
                   ri, acc, following_all, eworkers, efut, ei, accounts, idx, pageReqs,
                   session_id, user_id, firstFailed>>

----------------------------------------------------------------------------
\* The paging fan-out of get_following_all.

Pending == "pending"
Running == "running"
Done == "done"

NoPage == [kind |-> "nil", exc |-> "", body |-> NoBody]
InFlight(futs) == {i \in DOMAIN futs : futs[i].st = Running}
AllDone(futs) == \A i \in DOMAIN futs : futs[i].st = Done

\* Whether a task submitted after task i has completed before it (the order
\* of completion is kept for the properties, the program does not read it).
Overtaken(futs, i) == \E j \in DOMAIN futs : j > i /\ futs[j].st = Done

\* Mutant: a pool that starts a thread for every queued work item.
MayStartUnbounded(futs, i, workers) ==
    /\ i \in DOMAIN futs
    /\ futs[i].st = Pending
    /\ \A j \in 1..(i - 1) : futs[j].st # Pending

\* A worker of a ThreadPoolExecutor takes the oldest queued work item; there
\* are never more than max_workers workers.
MayStart(futs, i, workers) ==
    /\ i \in DOMAIN futs
    /\ futs[i].st = Pending
    /\ \A j \in 1..(i - 1) : futs[j].st # Pending
    /\ Cardinality(InFlight(futs)) < workers

\* with ThreadPoolExecutor(self.threads or len(slices)) as tpe:
PoolPages ==
    /\ pc = "pool_pages"
    /\ IF PagePoolSize <= 0
          THEN Fail("ValueError") /\ UNCHANGED pworkers
          ELSE pworkers' = PagePoolSize /\ pc' = "submit_pages" /\ UNCHANGED err
    /\ last' = NoCall
    /\ UNCHANGED <<table, rows, committed, threads, argsThreads, declared_total,
                   slices, pfut, ri, acc, following_all, eworkers, efut, ei, accounts,
                   idx, startReqs, pageReqs,
                   session_id, user_id, subject_id, firstFailed>>

\* futures.append(tpe.submit(self.get_following_slice, id, max_id))
SubmitPage ==
    /\ pc = "submit_pages"
    /\ Len(pfut) < Len(slices)
    /\ pfut' = Append(pfut, [user_id |-> subject_id, max_id |-> slices[Len(pfut) + 1],
                             st |-> Pending, n |-> 0, req |-> NoRequest,
                             late |-> FALSE, res |-> NoPage])
    /\ last' = NoCall
    /\ UNCHANGED <<pc, err, table, rows, committed, threads, argsThreads,
                   declared_total, slices, pworkers, ri, acc, following_all,
                   eworkers, efut, ei, accounts, idx, startReqs, pageReqs,
                   session_id, user_id, subject_id, firstFailed>>

\* A worker starts get_following_slice: make_request sends its one request.
StartPage(i) ==
    /\ MayStart(pfut, i, pworkers)
    /\ pfut' = [pfut EXCEPT ![i].st = Running, ![i].n = @ + 1,
                             ![i].req = FollowingRequest(pfut[i].user_id, pfut[i].max_id)]
    /\ pageReqs' = pageReqs + 1
    /\ last' = NoCall
    /\ UNCHANGED <<pc, err, table, rows, committed, threads, argsThreads,
                   declared_total, slices, pworkers, ri, acc, following_all,
                   eworkers, efut, ei, accounts, idx, startReqs,
                   session_id, user_id, subject_id, firstFailed>>

\* Mutant: a failed page request is sent once more.
CompletePageRetry(i) ==
    /\ i \in DOMAIN pfut
    /\ pfut[i].st = Running
    /\ \E o \in UrlopenOutcomes, body \in PageBodies :
        /\ IF make_request(o).kind # "resp" /\ pfut[i].n < 2
              THEN /\ pfut' = [pfut EXCEPT ![i].n = @ + 1]
                   /\ pageReqs' = pageReqs + 1
              ELSE /\ pfut' = [pfut EXCEPT ![i].st = Done,
                                           ![i].late = Overtaken(pfut, i),
                                           ![i].res = get_following_slice(o, body)]
                   /\ UNCHANGED pageReqs
        /\ last' = Call(o)
    /\ UNCHANGED <<pc, err, table, rows, committed, threads, argsThreads,
                   declared_total, slices, pworkers, ri, acc, following_all,
                   eworkers, efut, ei, accounts, idx, startReqs,
                   session_id, user_id, subject_id, firstFailed>>

\* urlopen comes back; get_following_slice ends and the future is resolved.
CompletePage(i) ==
    /\ i \in DOMAIN pfut
    /\ pfut[i].st = Running
    /\ \E o \in UrlopenOutcomes, body \in PageBodies :
        /\ pfut' = [pfut EXCEPT ![i].st = Done, ![i].late = Overtaken(pfut, i),
                                ![i].res = get_following_slice(o, body)]
        /\ last' = Call(o)
    /\ UNCHANGED <<pc, err, table, rows, committed, threads, argsThreads,
                   declared_total, slices, pworkers, ri, acc, following_all,
                   eworkers, efut, ei, accounts, idx, startReqs, pageReqs,
                   session_id, user_id, subject_id, firstFailed>>

\* Mutant: the pool is left without waiting for its workers.
JoinPagesNoWait ==
    /\ pc = "submit_pages"
    /\ Len(pfut) = Len(slices)
    /\ pc' = "read_pages"
    /\ last' = NoCall
    /\ UNCHANGED <<err, table, rows, committed, threads, argsThreads,
                   declared_total, slices, pworkers, pfut, ri, acc, following_all,
                   eworkers, efut, ei, accounts, idx, startReqs, pageReqs,
                   session_id, user_id, subject_id, firstFailed>>

\* The end of the with block: shutdown(wait=True) joins the workers.
JoinPages ==
    /\ pc = "submit_pages"
    /\ Len(pfut) = Len(slices)
    /\ AllDone(pfut)
    /\ pc' = "read_pages"
    /\ last' = NoCall
    /\ UNCHANGED <<err, table, rows, committed, threads, argsThreads,
                   declared_total, slices, pworkers, pfut, ri, acc, following_all,
                   eworkers, efut, ei, accounts, idx, startReqs, pageReqs,
                   session_id, user_id, subject_id, firstFailed>>

\* Mutant: a page whose request failed counts as an empty page.
PageUsersSkipFailed(f) ==
    IF f.res.kind = "resp" /\ f.res.body.ok
        THEN [ok |-> TRUE, exc |-> "", users |-> f.res.body.users]
        ELSE [ok |-> TRUE, exc |-> "", users |-> <<>>]

\* One step of sum((json.load(f.result())["users"] for f in futures), []).
\* f.result() waits for the future and raises what the task raised.
PageUsers(f) ==
    IF f.res.kind = "exc" THEN [ok |-> FALSE, exc |-> f.res.exc, users |-> <<>>]
    ELSE IF f.res.kind = "none" THEN [ok |-> FALSE, exc |-> "AttributeError", users |-> <<>>]
    ELSE IF ~f.res.body.ok THEN [ok |-> FALSE, exc |-> "DecodeError", users |-> <<>>]
    ELSE [ok |-> TRUE, exc |-> "", users |-> f.res.body.users]

\* Mutant: each page is put in front of the pages read before it.
AccumulateInFront(sofar, users) == users \o sofar

Accumulate(sofar, users) == sofar \o users

ReadPage ==
    /\ pc = "read_pages"
    /\ ri < Len(pfut)
    /\ pfut[ri + 1].st = Done
    /\ LET r == PageUsers(pfut[ri + 1]) IN
        IF r.ok
          THEN acc' = Accumulate(acc, r.users) /\ ri' = ri + 1 /\ UNCHANGED <<pc, err>>
          ELSE Fail(r.exc) /\ UNCHANGED <<acc, ri>>
    /\ last' = NoCall
    /\ UNCHANGED <<table, rows, committed, threads, argsThreads, declared_total,
                   slices, pworkers, pfut, following_all, eworkers, efut, ei, accounts,
                   idx, startReqs, pageReqs,
                   session_id, user_id, subject_id, firstFailed>>

\* get_following_all returns the sum and main() binds it to following_all.
\* The pool and the futures of the page requests are gone with the call.
ReturnFollowing ==
    /\ pc = "read_pages"
    /\ ri = Len(pfut)
    /\ following_all' = acc
    /\ pfut' = <<>>
    /\ pworkers' = 0
    /\ pc' = "pool_profiles"
    /\ last' = NoCall
    /\ UNCHANGED <<err, table, rows, committed, threads, argsThreads,
                   declared_total, slices, ri, acc, eworkers, efut, ei,
                   accounts, idx, startReqs, pageReqs,
                   session_id, user_id, subject_id, firstFailed>>

----------------------------------------------------------------------------
\* The enrichment fan-out of main().

\* with ThreadPoolExecutor(args.threads) as tpe:
PoolProfiles ==
    /\ pc = "pool_profiles"
    /\ IF argsThreads <= 0
          THEN Fail("ValueError") /\ UNCHANGED eworkers
          ELSE eworkers' = argsThreads /\ pc' = "submit_profiles" /\ UNCHANGED err
    /\ last' = NoCall
    /\ UNCHANGED <<table, rows, committed, threads, argsThreads, declared_total,
                   slices, pworkers, pfut, ri, acc, following_all, efut, ei, accounts,
                   idx, startReqs, pageReqs,
                   session_id, user_id, subject_id, firstFailed>>

\* Mutant: each username is looked up once.
RECURSIVE Dedup(_)
Dedup(list) ==
    IF list = <<>> THEN <<>>
    ELSE LET front == Dedup(SubSeq(list, 1, Len(list) - 1))
             x == list[Len(list)] IN
         IF \E i \in DOMAIN front : front[i] = x THEN front ELSE Append(front, x)

ToSubmitOnce == Dedup(following_all)

\* for profile in following_all: all of them, in list order.
ToSubmit == following_all

\* futures.append(tpe.submit(client.get_profile, profile["username"]))
SubmitProfile ==
    /\ pc = "submit_profiles"
    /\ Len(efut) < Len(ToSubmit)
    /\ efut' = Append(efut, [user |-> ToSubmit[Len(efut) + 1], st |-> Pending,
                             n |-> 0, res |-> NoValue])
    /\ last' = NoCall
    /\ UNCHANGED <<pc, err, table, rows, committed, threads, argsThreads,
                   declared_total, slices, pworkers, pfut, ri, acc, following_all,
                   eworkers, ei, accounts, idx, startReqs, pageReqs,
                   session_id, user_id, subject_id, firstFailed>>

\* A worker starts get_profile: make_request sends its one request.
StartProfile(i) ==
    /\ MayStart(efut, i, eworkers)
    /\ efut' = [efut EXCEPT ![i].st = Running, ![i].n = @ + 1]
    /\ last' = NoCall
    /\ UNCHANGED <<pc, err, table, rows, committed, threads, argsThreads,
                   declared_total, slices, pworkers, pfut, ri, acc, following_all,
                   eworkers, ei, accounts, idx, startReqs, pageReqs,
                   session_id, user_id, subject_id, firstFailed>>

\* urlopen comes back; get_profile decodes the body in the worker and the
\* future is resolved with the profile or with the exception.
CompleteProfile(i) ==
    /\ i \in DOMAIN efut
    /\ efut[i].st = Running
    /\ \E o \in UrlopenOutcomes, body \in ProfileBodies(efut[i].user, {0}) :
        /\ efut' = [efut EXCEPT ![i].st = Done, ![i].res = get_profile(o, body)]
        /\ firstFailed' = (IF firstFailed = 0 /\ get_profile(o, body).kind = "exc"
                                THEN i ELSE firstFailed)
        /\ last' = Call(o)
    /\ UNCHANGED <<pc, err, table, rows, committed, threads, argsThreads,
                   declared_total, slices, pworkers, pfut, ri, acc, following_all,
                   eworkers, ei, accounts, idx, startReqs, pageReqs,
                   session_id, user_id, subject_id>>

\* The end of the with block: shutdown(wait=True) joins the workers.
JoinProfiles ==
    /\ pc = "submit_profiles"
    /\ Len(efut) = Len(ToSubmit)
    /\ AllDone(efut)
    /\ pc' = "read_profiles"
    /\ last' = NoCall
    /\ UNCHANGED <<err, table, rows, committed, threads, argsThreads,
                   declared_total, slices, pworkers, pfut, ri, acc, following_all,
                   eworkers, efut, ei, accounts, idx, startReqs, pageReqs,
                   session_id, user_id, subject_id, firstFailed>>

\* Mutant: a lookup that failed is left out of the list.
CollectSkipFailed(list, f) ==
    IF f.res.kind = "value"
        THEN [ok |-> TRUE, exc |-> "", list |-> Append(list, f.res.profile)]
        ELSE [ok |-> TRUE, exc |-> "", list |-> list]

\* f.result() inside [f.result() for f in futures]: the list with the task's
\* value appended, or the exception the task raised.
Collect(list, f) ==
    IF f.res.kind = "value"
        THEN [ok |-> TRUE, exc |-> "", list |-> Append(list, f.res.profile)]
        ELSE [ok |-> FALSE, exc |-> f.res.exc, list |-> list]

\* Mutant: the lookup that failed first is the one whose result is read.
ReadingFailedFirst == IF firstFailed # 0 THEN firstFailed ELSE ei + 1

\* The future whose result() the comprehension calls next: the futures are
\* taken in the order of the list, which is the order of submission.
Reading == ei + 1

\* One step of [f.result() for f in futures].
ReadProfile ==
    /\ pc = "read_profiles"
    /\ ei < Len(efut)
    /\ efut[Reading].st = Done
    /\ LET r == Collect(accounts, efut[Reading]) IN
        IF r.ok
          THEN accounts' = r.list /\ ei' = ei + 1 /\ UNCHANGED <<pc, err>>
          ELSE Fail(r.exc) /\ UNCHANGED <<accounts, ei>>
    /\ last' = NoCall
    /\ UNCHANGED <<table, rows, committed, threads, argsThreads, declared_total,
                   slices, pworkers, pfut, ri, acc, following_all, eworkers, efut,
                   idx, startReqs, pageReqs,
                   session_id, user_id, subject_id, firstFailed>>

\* The list is built; the for loop over it starts.
StartInserts ==
    /\ pc = "read_profiles"
    /\ ei = Len(efut)
    /\ pc' = "insert"
    /\ last' = NoCall
    /\ UNCHANGED <<err, table, rows, committed, threads, argsThreads,
                   declared_total, slices, pworkers, pfut, ri, acc, following_all,
                   eworkers, efut, ei, accounts, idx, startReqs, pageReqs,
                   session_id, user_id, subject_id, firstFailed>>

----------------------------------------------------------------------------
\* The sink of main().

\* cur.executemany("INSERT ... VALUES(?, ?, ?, ?, ?, ?)", data) takes each of
\* the six values of data as the parameters of one row: a value of six items
\* makes a row of its items, any other value raises ProgrammingError, and the
\* rows made before it stay in the open transaction.
RECURSIVE Bindable(_, _)
Bindable(shape, j) ==
    IF j > Len(shape) \/ shape[j] # 6 THEN 0 ELSE 1 + Bindable(shape, j + 1)

RowsOf(account, k) == [j \in 1..k |-> [of |-> account.username, items |-> j]]

InsertAccount ==
    /\ pc = "insert"
    /\ idx < Len(accounts)
    /\ LET account == accounts[idx + 1]
           k == Bindable(account.shape, 1) IN
        /\ rows' = rows \o RowsOf(account, k)
        /\ IF k = Len(account.shape)
              THEN idx' = idx + 1 /\ UNCHANGED <<pc, err>>
              ELSE Fail("ProgrammingError") /\ UNCHANGED idx
    /\ last' = NoCall
    /\ UNCHANGED <<table, committed, threads, argsThreads, declared_total, slices,
                   pworkers, pfut, ri, acc, following_all, eworkers, efut, ei, accounts,
                   startReqs, pageReqs,
                   session_id, user_id, subject_id, firstFailed>>

\* con.commit()
Commit ==
    /\ pc = "insert"
    /\ idx = Len(accounts)
    /\ committed' = TRUE
    /\ pc' = "done"
    /\ last' = NoCall
    /\ UNCHANGED <<err, table, rows, threads, argsThreads, declared_total, slices,
                   pworkers, pfut, ri, acc, following_all, eworkers, efut, ei, accounts,
                   idx, startReqs, pageReqs,
                   session_id, user_id, subject_id, firstFailed>>

\* What the store holds once the process has ended: the table, which CREATE
\* TABLE made outside of any transaction, and the rows of a transaction that
\* was committed; the rows of an open transaction are dropped with it.
Persisted == [table |-> table # "absent", rows |-> IF committed THEN rows ELSE <<>>]

----------------------------------------------------------------------------
Next ==
    \/ CreateTable
    \/ GetUserProfile
    \/ PoolPages
    \/ SubmitPage
    \/ \E i \in DOMAIN pfut : StartPage(i)
    \/ \E i \in DOMAIN pfut : CompletePage(i)
    \/ JoinPages
    \/ ReadPage
    \/ ReturnFollowing
    \/ PoolProfiles
    \/ SubmitProfile
    \/ \E i \in DOMAIN efut : StartProfile(i)
    \/ \E i \in DOMAIN efut : CompleteProfile(i)
    \/ JoinProfiles
    \/ ReadProfile
    \/ StartInserts
    \/ InsertAccount
    \/ Commit

Spec == Init /\ [][Next]_vars

\* The threads of the run.  The interpreter schedules every thread that can
\* take a step, and urlopen comes back (with a response or an error) from
\* every request.
MainThread ==
    \/ CreateTable \/ GetUserProfile \/ PoolPages \/ SubmitPage \/ JoinPages
    \/ ReadPage \/ ReturnFollowing \/ PoolProfiles \/ SubmitProfile
    \/ JoinProfiles \/ ReadProfile \/ StartInserts \/ InsertAccount \/ Commit
Workers ==
    \/ \E i \in DOMAIN pfut : StartPage(i)
    \/ \E i \in DOMAIN efut : StartProfile(i)
Remote ==
    \/ \E i \in DOMAIN pfut : CompletePage(i)
    \/ \E i \in DOMAIN efut : CompleteProfile(i)

FairSpec == Spec /\ WF_vars(MainThread) /\ WF_vars(Workers) /\ WF_vars(Remote)

----------------------------------------------------------------------------
\* Properties.

CeilDiv(a, b) == (a + b - 1) \div b

\* The paging with block of get_following_all has been left.
PagesJoined == pworkers > 0 /\ pc # "submit_pages"

\* get_following_all has returned a list to main().
Returned == pc \in {"pool_profiles", "submit_profiles", "read_profiles", "insert", "done"}
            \/ (pc = "failed" /\ eworkers > 0)

\* The summaries of the pages 1..k, in offset order.
RECURSIVE PagesInOffsetOrder(_)
PagesInOffsetOrder(k) ==
    IF k = 0 THEN <<>> ELSE PagesInOffsetOrder(k - 1) \o pfut[k].res.body.users

\* The page requests made so far are exactly those at the first k offsets.
RequestedExactly(k) ==
    /\ Len(pfut) = k
    /\ \A i \in 1..k : pfut[i].max_id = i * PageSize /\ pfut[i].n = 1

\* C1 as stated: once the page requests of a run have been made, they are
\* exactly ceil((declared_total + page_size) / page_size) requests, at the
\* offsets page_size, 2*page_size, ...; so 3 requests for declared_total = 400.
C1_PagesPlusOne ==
    PagesJoined => RequestedExactly(CeilDiv(declared_total + PageSize, PageSize))

\* C1 amended: the page requests of a run are exactly ceil(declared_total /
\* page_size) requests, one at each offset page_size, 2*page_size, ... below
\* declared_total + page_size (2 requests, at 200 and 400, for
\* declared_total = 400); no other offset is ever requested.
C1_PagesCeil ==
    /\ \A i \in DOMAIN pfut :
        /\ pfut[i].max_id = i * PageSize
        /\ pfut[i].max_id < declared_total + PageSize
        /\ pfut[i].n <= 1
    /\ PagesJoined => RequestedExactly(CeilDiv(declared_total, PageSize))

C1_Witness ==
    /\ PagesJoined
    /\ declared_total = 2 * PageSize
    /\ RequestedExactly(2)

\* C2 as stated: with declared_total = 0 and no thread count set, once past
\* the paging get_following_all has made exactly one page request, at offset
\* page_size, and has not failed without making it.
C2_ZeroTotalOnePage ==
    (declared_total = 0 /\ threads = 0 /\ pc \notin {"pool_pages", "submit_pages"})
        => (RequestedExactly(1) /\ ~(pc = "failed" /\ pfut = <<>>))

\* Whether a task has failed.
PageFailed(i) ==
    /\ pfut[i].st = Done
    /\ \/ pfut[i].res.kind \in {"exc", "none"}          \* no response to decode
       \/ pfut[i].res.kind = "resp" /\ ~pfut[i].res.body.ok   \* undecodable body
LookupFailed(i) == efut[i].st = Done /\ efut[i].res.kind # "value"

\* C3: the list get_following_all returns is the pages' summaries one after
\* the other in increasing offset order, every summary kept where it stands,
\* in whatever order the page requests completed.
C3_ConcatInOffsetOrder ==
    [][ReturnFollowing => following_all' = PagesInOffsetOrder(Len(pfut))]_vars

\* The second page completed first; the list is about to be returned as it
\* was read, neither sorted nor shortened.
C3_Witness ==
    /\ pc = "read_pages"
    /\ Len(pfut) = 2 /\ ri = 2
    /\ pfut[1].late
    /\ pfut[1].res.body.users = <<"b">> /\ pfut[2].res.body.users = <<"a">>
    /\ acc = <<"b", "a">>

\* C4: once a page request has failed (error status, transport failure,
\* undecodable body) get_following_all returns no list: the main thread never
\* reads past the failed page and never gets to the enrichment or the sink.
C4_FailedPageNoList ==
    \A i \in DOMAIN pfut : PageFailed(i) =>
        /\ pc \in {"submit_pages", "read_pages", "failed"}
        /\ ri < i
        /\ ~Returned
        /\ following_all = <<>> /\ efut = <<>> /\ accounts = <<>>
        /\ rows = <<>> /\ ~committed

\* The first page was read, the second had failed: the run ended there.
C4_Witness ==
    /\ pc = "failed"
    /\ Len(pfut) = 2
    /\ ~PageFailed(1) /\ PageFailed(2)
    /\ acc = <<"a">>

\* C5: once the lookup of any summary has failed, no row is inserted and
\* nothing is committed: the for loop over the profiles never starts.
C5_FailedLookupNoRows ==
    \A i \in DOMAIN efut : LookupFailed(i) =>
        /\ pc \in {"submit_profiles", "read_profiles", "failed"}
        /\ ei < i
        /\ idx = 0 /\ rows = <<>> /\ ~committed

\* The first lookup succeeded and was read, the second one had failed.
C5_Witness ==
    /\ pc = "failed"
    /\ Len(efut) = 2
    /\ ~LookupFailed(1) /\ LookupFailed(2)
    /\ Len(accounts) = 1

Occurrences(list, u) == Cardinality({i \in DOMAIN list : list[i] = u})
LookedUp(u) == {i \in DOMAIN efut : efut[i].user = u /\ efut[i].n = 1}
HandedOver(u) == {i \in DOMAIN accounts : accounts[i].username = u}

\* The enrichment has ended without error: the list of profiles is built.
Enriched == pc \in {"insert", "done"} \/ (pc = "failed" /\ err = "ProgrammingError")

\* C6: when the enrichment ends without error, every username of the
\* accumulated pages has been looked up and has its profile in the list given
\* to the sink, once for each of its occurrences in the pages, and no other
\* username has.
C6_EnrichedEqualsPages ==
    Enriched =>
        /\ Len(efut) = Len(following_all) /\ Len(accounts) = Len(following_all)
        /\ \A i \in DOMAIN efut : efut[i].n = 1
        /\ \A u \in Usernames \cup {efut[i].user : i \in DOMAIN efut}
                    \cup {accounts[i].username : i \in DOMAIN accounts} :
            /\ Cardinality(LookedUp(u)) = Occurrences(following_all, u)
            /\ Cardinality(HandedOver(u)) = Occurrences(following_all, u)

\* A username on two pages: looked up twice, and the run ends well.
C6_Witness ==
    /\ pc = "done"
    /\ following_all = <<"a", "a">>
    /\ Cardinality(LookedUp("a")) = 2
    /\ Len(accounts) = 2

RECURSIVE Sent(_, _)
Sent(futs, k) == IF k = 0 THEN 0 ELSE Sent(futs, k - 1) + futs[k].n
Requests == startReqs + pageReqs + Sent(efut, Len(efut))

\* C8: a task sends one request, when it starts, and none after that; so no
\* offset is requested twice, no summary is looked up twice, and a run makes
\* at most 1 + number of offsets + number of summaries requests, also once
\* requests have failed.
C8_NoRetry ==
    /\ startReqs <= 1
    /\ \A i \in DOMAIN pfut : pfut[i].n = (IF pfut[i].st = Pending THEN 0 ELSE 1)
    /\ \A i \in DOMAIN efut : efut[i].n = (IF efut[i].st = Pending THEN 0 ELSE 1)
    /\ \A i, j \in DOMAIN pfut : pfut[i].max_id = pfut[j].max_id => i = j
    /\ Len(pfut) <= Len(slices)
    /\ pageReqs <= Len(slices)
    /\ pfut # <<>> => pageReqs = Sent(pfut, Len(pfut))
    /\ Len(efut) <= Len(following_all)
    /\ Requests <= 1 + Len(slices) + Len(following_all)

\* A page request has failed after its one request, and the run has ended.
C8_Witness ==
    /\ Len(pfut) = 2 /\ PageFailed(1) /\ pfut[1].n = 1
    /\ pc = "failed"

\* C9: while a task of a fan-out is still queued or in flight the main thread
\* is inside that fan-out's with block: it has read no result of the fan-out
\* and the run has not failed.
C9_JoinBeforeRead ==
    /\ (\E i \in DOMAIN pfut : pfut[i].st # Done) =>
            (pc = "submit_pages" /\ ri = 0 /\ acc = <<>>)
    /\ (\E i \in DOMAIN efut : efut[i].st # Done) =>
            (pc = "submit_profiles" /\ ei = 0 /\ accounts = <<>>)

\* The first page request failed before the second one completed, and the
\* failure was reported with both of them completed.
C9_Witness ==
    /\ pc = "failed"
    /\ Len(pfut) = 2
    /\ PageFailed(1) /\ ~pfut[1].late
    /\ pfut[2].st = Done /\ pfut[2].res.kind = "resp"

InFlightBounded ==
    /\ Cardinality(InFlight(pfut)) <= (IF threads # 0 THEN threads ELSE Len(slices))
    /\ Cardinality(InFlight(efut)) <= argsThreads

\* The tasks waiting in the queue of a pool.
Queued(futs) == {i \in DOMAIN futs : futs[i].st = Pending}

SixValues(account) == [of |-> account.username, items |-> 0]

\* C11 as stated: a run that ends without error has inserted exactly one row
\* for each enriched profile, the row of that profile's six values, and it
\* has committed, once, after the last insert and not before it.
C11_OneRowPerProfile ==
    /\ committed => (pc = "done" /\ idx = Len(accounts))
    /\ pc = "done" =>
        /\ committed
        /\ Len(rows) = Len(accounts)
        /\ \A i \in DOMAIN rows : rows[i] = SixValues(accounts[i])

\* C12: when the table following exists at the start of a run, the run goes
\* no further than the table creation, where it fails with sqlite3's
\* OperationalError: it sends no request, inserts no row and commits nothing.
C12_ExistingTableFails ==
    table = "pre" =>
        /\ pc \in {"create_table", "failed"}
        /\ pc = "failed" => err = "OperationalError"
        /\ Requests = 0
        /\ rows = <<>> /\ ~committed

\* The run found the table and has failed.
C12_Witness == table = "pre" /\ pc = "failed" /\ err = "OperationalError"

\* A credential is given neither by its flag nor by the environment.
CredentialMissing == session_id = "None" \/ user_id = 0

\* C13 as stated: with a credential missing, the run sends no request: it
\* fails before the first one.
C13_MissingCredentialNoRequest ==
    CredentialMissing => (Requests = 0 /\ ~last.called)

\* C14 as stated: a run that has failed after it created the table leaves the
\* store as it found it: without the table following and without rows.
C14_FailedRunLeavesNothing ==
    (pc = "failed" /\ table # "pre") => Persisted = [table |-> FALSE, rows |-> <<>>]

\* C15: get_following_all looks the subject's profile up once, before any
\* page request, and every page request sent asks for the listing of the
\* account whose id that profile gave (not the credential's own account)
\* with count = page_size.
C15_PagesOfTheSubject ==
    /\ startReqs <= 1
    /\ (pfut # <<>> \/ pageReqs > 0) => (startReqs = 1 /\ subject_id = Ids["gkze"])
    /\ \A i \in DOMAIN pfut : pfut[i].n > 0 =>
        /\ pfut[i].req.user_id = subject_id
        /\ pfut[i].req.user_id # user_id
        /\ pfut[i].req.count = PageSize
        /\ pfut[i].req.max_id = pfut[i].max_id

\* Both page requests of a run with credentials were sent for the subject.
C15_Witness ==
    /\ user_id # 0
    /\ Len(pfut) = 2
    /\ \A i \in 1..2 : pfut[i].n = 1 /\ pfut[i].req.user_id = Ids["gkze"]

\* C16: the stages of a run come one after the other and never overlap.  No
\* request is sent before the table is created; no page request is submitted
\* before the subject's profile has been read; no lookup is submitted before
\* every page request has completed and its page has been decoded; no row is
\* inserted before every lookup has completed and been read; nothing is
\* committed before the last insert, and nothing happens after the commit.
C16_StagesInOrder ==
    /\ Requests > 0 => table = "created"
    /\ (pfut # <<>> \/ pageReqs > 0) =>
            (startReqs = 1 /\ declared_total >= 0 /\ slices = Slices(declared_total))
    /\ pfut # <<>> => (efut = <<>> /\ accounts = <<>> /\ rows = <<>> /\ ~committed)
    /\ (eworkers > 0 \/ efut # <<>>) =>
            (pfut = <<>> /\ pageReqs = Len(slices) /\ ri = Len(slices)
                /\ following_all = acc)
    /\ (\E i \in DOMAIN efut : efut[i].st # Done) => (accounts = <<>> /\ rows = <<>>)
    /\ (idx > 0 \/ rows # <<>>) =>
            (AllDone(efut) /\ ei = Len(efut) /\ Len(accounts) = Len(following_all))
    /\ committed => (pc = "done" /\ idx = Len(accounts))

\* A run through all the stages: two pages, two lookups, rows, the commit.
C16_Witness ==
    /\ pc = "done" /\ committed
    /\ pageReqs = 2
    /\ Len(efut) = 2
    /\ rows # <<>>

\* C17: whatever the order in which the lookups complete, their results are
\* read in the order of submission: the i-th profile of the list given to the
\* sink is the result of the i-th lookup, the lookup of the i-th summary; and
\* a run that a lookup ended reports the exception of the first failed lookup
\* in list order, every lookup before it having given its profile.
C17_ReadInSubmissionOrder ==
    /\ Len(accounts) = ei
    /\ \A i \in DOMAIN accounts :
        /\ i <= Len(efut)
        /\ efut[i].res.kind = "value"
        /\ accounts[i] = efut[i].res.profile
        /\ accounts[i].username = following_all[i]
    /\ (pc = "failed" /\ ei < Len(efut)) =>
        /\ LookupFailed(ei + 1)
        /\ err = efut[ei + 1].res.exc
        /\ \A j \in 1..ei : ~LookupFailed(j)

\* Two lookups failed, the second one first in time: the run reports the
\* exception of the first one.
C17_Witness ==
    /\ pc = "failed"
    /\ Len(efut) = 2
    /\ LookupFailed(1) /\ LookupFailed(2)
    /\ firstFailed = 2
    /\ efut[1].res.exc # efut[2].res.exc
    /\ err = efut[1].res.exc

====
